---- MODULE Spec2Model ----
(***************************************************************************)
(* Model of cloud-init-rs: the instance state store (state/mod.rs), the    *)
(* semaphore manager (state/semaphore.rs) and the stage pipeline (lib.rs,  *)
(* stages/*.rs), and the functions of the configuration loader and merge   *)
(* (config/), the datasources, the network conversion and renderers        *)
(* (network/), the user-data parser and the command modules.               *)
(*                                                                         *)
(* Strings that the code compares or trims (instance ids, file contents)   *)
(* are sequences of one-character strings, so that str::trim is computed.  *)
(* A directory path is a record [root, id, leaf]: <base>/<root>/<id>/<leaf> *)
(* where an empty component is absent (PathBuf::join("") adds nothing).    *)
(***************************************************************************)
EXTENDS Naturals, Sequences, FiniteSets

(* ---------------------------- bounds ----------------------------------- *)

\* number of injected file-system errors in one behaviour
MaxFaults == 1

\* number of set_instance_id calls in one behaviour
MaxCalls == 4

\* number of times the program is started in one behaviour
MaxRuns == 2

\* number of documents handed to one merge
MaxDocs == 3

\* number of items of a v1 network document
MaxItems == 2

\* number of gzip / base64 layers around a user-data document
MaxLayers == 2

\* number of commands of a runcmd / bootcmd list
MaxCommands == 3

(* ---------------------------- inputs ----------------------------------- *)

\* instance ids handed to set_instance_id: "a", "b" and "a " (trailing blank)
InstanceIds == { <<"a">>, <<"b">>, <<"a", " ">> }

\* module names handed to the semaphore manager
Modules == { "hostname" }

\* frequencies of semaphore.rs
Frequencies == { "PerBoot", "PerInstance", "PerOnce", "Always" }

(* ---------------------------- strings ---------------------------------- *)

IsWhitespace(c) == c \in { " ", "\n", "\t" }

RECURSIVE TrimStart(_)
TrimStart(s) ==
    IF s = <<>> THEN s
    ELSE IF IsWhitespace(Head(s)) THEN TrimStart(Tail(s)) ELSE s

RECURSIVE TrimEnd(_)
TrimEnd(s) ==
    IF s = <<>> THEN s
    ELSE IF IsWhitespace(s[Len(s)]) THEN TrimEnd(SubSeq(s, 1, Len(s) - 1)) ELSE s

\* str::trim
Trim(s) == TrimEnd(TrimStart(s))

\* a file that does not exist / an Option that is None
NoFile == << "<absent>" >>
None == << "<none>" >>

(* ---------------------------- paths ------------------------------------ *)

data_dir == [root |-> "data", id |-> <<>>, leaf |-> ""]
instances_dir == [root |-> "instances", id |-> <<>>, leaf |-> ""]
instance_dir(id) == [root |-> "instances", id |-> id, leaf |-> ""]

\* instance_dir(id).join("sem")
sem_dir(id) == [root |-> "instances", id |-> id, leaf |-> "sem"]

\* data_dir.join("sem/config_<m>").parent()
data_sem_dir == [root |-> "data", id |-> <<>>, leaf |-> "sem"]

NoLink == [root |-> "<nolink>", id |-> <<>>, leaf |-> ""]
NoPath == [dir |-> NoLink, name |-> ""]

\* the directories create_dir_all(p) makes sure exist
Ancestors(p) ==
    { [root |-> p.root, id |-> <<>>, leaf |-> ""],
      [root |-> p.root, id |-> p.id, leaf |-> ""],
      p }

\* p is d or lies below d
Below(p, d) ==
    /\ p.root = d.root
    /\ IF d.id = <<>>
       THEN d.leaf = "" \/ p = d
       ELSE p.id = d.id /\ (d.leaf = "" \/ p.leaf = d.leaf)

\* InstanceState.semaphores is None
NoManager == [root |-> "<none>", id |-> <<>>, leaf |-> ""]

(* ---------------------------- cloud-config ----------------------------- *)

\* CloudConfig::default(): the fields the Config stage reads.  groups and
\* users are list lengths, write_files the defer flags of its entries.
DefaultConfig ==
    [hostname |-> FALSE, timezone |-> FALSE, locale |-> FALSE,
     groups |-> 0, users |-> 0, write_files |-> <<>>,
     package_update |-> FALSE, package_upgrade |-> FALSE, packages |-> FALSE]

\* cloud-config documents found on disk
FullConfig ==
    [hostname |-> TRUE, timezone |-> TRUE, locale |-> TRUE,
     groups |-> 2, users |-> 2, write_files |-> <<TRUE, FALSE>>,
     package_update |-> TRUE, package_upgrade |-> TRUE, packages |-> TRUE]

Configs ==
    { FullConfig,
      [DefaultConfig EXCEPT !.hostname = TRUE],
      [DefaultConfig EXCEPT !.packages = TRUE, !.write_files = <<TRUE>>] }

\* a file of an instance directory: absent, unparsable YAML, a script,
\* or a cloud-config document
AbsentFile == [kind |-> "absent", cfg |-> DefaultConfig]
InvalidFile == [kind |-> "invalid", cfg |-> DefaultConfig]
ScriptFile == [kind |-> "script", cfg |-> DefaultConfig]
ConfigFile(c) == [kind |-> "config", cfg |-> c]

\* CloudInitStatus: the fields status, boot_finished, stage and error
Status(st, bf, stage, err) ==
    [status |-> st, boot_finished |-> bf, stage |-> stage, error |-> err]

\* data/status.json does not exist
NoStatus == Status("<absent>", FALSE, "", "")

\* the status documents handed to update_status
Statuses ==
    { Status("running", FALSE, "config", ""),
      Status("done", TRUE, "final", ""),
      Status("error", FALSE, "config", "Module") }

\* the ids an instance directory can be named by; the empty id names
\* instances/ itself (PathBuf::join(""))
DirIds == InstanceIds \cup { Trim(i) : i \in InstanceIds } \cup { <<>> }

(* ---------------------------- stages ----------------------------------- *)

\* main: the stage list of each sub-command
StageList(cmd) ==
    CASE cmd = "init" -> << "local", "network", "config", "final" >>
      [] cmd = "local" -> << "local" >>
      [] cmd = "network" -> << "network" >>
      [] cmd = "config" -> << "config" >>
      [] cmd = "final" -> << "final" >>

\* what one of the four network-config paths the Local stage tries holds
NetConfigStates ==
    { "absent", "unreadable", "invalid", "no_interfaces", "applies", "apply_fails" }

VARIABLES
    dirs,          \* directories that exist under the base directory
    semFiles,      \* semaphore marker files: [dir, name]
    cachedFile,    \* content of data/instance-id, or NoFile
    previousFile,  \* content of data/previous-instance-id, or NoFile
    link,          \* target of the `instance` symlink, or NoLink
    instance_id,   \* InstanceState.instance_id (Option)
    semaphores,    \* InstanceState.semaphores (Option): the manager's sem_dir
    pc,            \* position inside set_instance_id, "idle" between calls
    arg,           \* the id handed to the running set_instance_id
    is_new,        \* set_instance_id's local is_new_instance
    ret,           \* what the last finished operation returned
    faults,        \* injected errors so far
    calls          \* set_instance_id calls so far

storeVars == << dirs, semFiles, cachedFile, previousFile, link, instance_id,
                semaphores, pc, arg, is_new, ret, faults, calls >>

VARIABLES
    cloudConfigFile, \* per instance id: instances/<id>/cloud-config.txt
    userDataFile,    \* per instance id: instances/<id>/user-data.txt
    bootFinished,    \* the ids whose instances/<id>/boot-finished exists
    statusFile,      \* content of data/status.json, or NoStatus
    run,             \* number of the current program run
    stages,          \* the stage list handed to run_stages
    si,              \* index of run_stages' loop in stages
    pcP,             \* position of the run: "idle", "next" or a stage step
    config,          \* the CloudConfig the Config stage loaded
    log,             \* what the runs did, in order
    exit             \* what run_stages returned to main

instFiles == << cloudConfigFile, userDataFile, bootFinished, statusFile >>

pipeVars == << run, stages, si, pcP, config, log, exit >>

disk == << dirs, semFiles, cachedFile, previousFile, link >>

VARIABLES
    configs,         \* merge: the documents handed to the merge, in order
    pending,         \* merge: the documents still to be merged pairwise
    merged,          \* merge: what merge_all_configs returned, or NoDoc
    dropins,         \* loader: the entries of cloud.cfg.d/
    system_config,   \* loader: the documents load_merged_config merged, and
                     \*         what it returned
    available,       \* datasources: what each driver's is_available reports
    probed,          \* datasources: the drivers detect_datasource has probed
    detected,        \* datasources: what detect_datasource returned
    imds,            \* EC2: how the metadata service answers
    requests,        \* EC2: the HTTP requests sent, in order
    response,        \* EC2: what the fetch returned
    v1,              \* network: the v1 document
    v2,              \* network: what to_v2 returned, or NoV2
    names,           \* network: what interface_names returned
    prefix,          \* netmask: the prefix length
    build,           \* netmask: overflow checks compiled in or not
    netmask,         \* netmask: what prefix_to_netmask returned
    back,            \* netmask: what netmask_to_prefix returned
    hint,            \* renderer: apply_network_config's renderer_hint
    renderer,        \* renderer: the document's renderer field
    paths,           \* renderer: the paths that exist on the system
    used,            \* renderer: the renderer apply_network_config took
    raw,             \* user-data: the bytes handed to parse_userdata
    userdata,          \* user-data: what parse_userdata returned
    commands,        \* runcmd / bootcmd: how each command of the list ends
    executed         \* runcmd / bootcmd: the commands run and the result

mergeVars == << configs, pending, merged, dropins, system_config >>

dsVars == << available, probed, detected, imds, requests, response >>

netVars == << v1, v2, names, prefix, build, netmask, back, hint, renderer,
             paths, used >>

udVars == << raw, userdata, commands, executed >>

fnVars == << mergeVars, dsVars, netVars, udVars >>

vars == << storeVars, instFiles, pipeVars, fnVars >>

Ret(op, m, f, v) == [op |-> op, module |-> m, freq |-> f, val |-> v]

(* ---------------------------- semaphores ------------------------------- *)

\* sem_path with the per-instance marker kept in the shared data directory
sem_path_SharedPerInstance(sd, module, freq) ==
    CASE freq \in {"PerBoot", "Always"} -> NoPath
      [] freq = "PerInstance" -> [dir |-> data_sem_dir, name |-> module]
      [] freq = "PerOnce" -> [dir |-> data_sem_dir, name |-> module]

\* sem_path with the per-once marker kept in the instance's sem directory
sem_path_OncePerInstance(sd, module, freq) ==
    CASE freq \in {"PerBoot", "Always"} -> NoPath
      [] freq = "PerInstance" -> [dir |-> sd, name |-> module]
      [] freq = "PerOnce" -> [dir |-> sd, name |-> module]

\* SemaphoreManager::sem_path, for the manager whose sem_dir is sd
sem_path(sd, module, freq) ==
    CASE freq \in {"PerBoot", "Always"} -> NoPath
      [] freq = "PerInstance" -> [dir |-> sd, name |-> module]
      [] freq = "PerOnce" -> [dir |-> data_sem_dir, name |-> module]

\* SemaphoreManager::should_run
should_run(sd, module, freq) ==
    CASE freq \in {"PerBoot", "Always"} -> TRUE
      [] OTHER ->
           IF sem_path(sd, module, freq) # NoPath
           THEN sem_path(sd, module, freq) \notin semFiles
           ELSE TRUE

(* ---------------------------- config/merge.rs -------------------------- *)

\* Option<T>
Some(x) == [some |-> TRUE, v |-> x]
NoString == [some |-> FALSE, v |-> ""]
NoBool == [some |-> FALSE, v |-> FALSE]

\* SshConfig and Option<SshConfig>
SshConfig(emit, keys) ==
    [emit_keys_to_console |-> emit, ssh_authorized_keys |-> keys]
NoSsh == [some |-> FALSE, v |-> SshConfig(NoBool, <<>>)]

\* CloudConfig: a scalar, a list and a nested optional mapping
CloudConfig(h, p, s) == [hostname |-> h, packages |-> p, ssh |-> s]

\* CloudConfig::default(): every optional field unset, every list empty
CloudConfigDefault == CloudConfig(NoString, <<>>, NoSsh)

\* merged stands for nothing while merge_all_configs has not returned
NoDoc == CloudConfig(Some("<not merged>"), <<>>, NoSsh)

\* serde_yaml::Value
Null == [t |-> "null", v |-> <<>>]
Value(t, v) == [t |-> t, v |-> v]

\* serde_yaml::to_value of an Option<String> or Option<bool> and of a
\* Vec<String>
OptValue(o, t) == IF o.some THEN Value(t, o.v) ELSE Null
StringsValue(q) == Value("seq", [i \in DOMAIN q |-> Value("str", q[i])])

\* serde_yaml::to_value(&CloudConfig): every field is written, None as null
to_value(c) ==
    Value("map", [hostname |-> OptValue(c.hostname, "str"),
          packages |-> StringsValue(c.packages),
          ssh |-> IF c.ssh.some
                  THEN Value("map", [emit_keys_to_console |->
                                 OptValue(c.ssh.v.emit_keys_to_console, "bool"),
                             ssh_authorized_keys |->
                                 StringsValue(c.ssh.v.ssh_authorized_keys)])
                  ELSE Null])

\* the shapes serde accepts for an Option<String>, an Option<bool>, a
\* Vec<String> (a null is not a sequence) and an Option<SshConfig>
IsOpt(y, t) == y.t \in {"null", t}
IsStrings(y) == y.t = "seq" /\ \A i \in DOMAIN y.v : y.v[i].t = "str"
IsOptSsh(y) ==
    \/ y.t = "null"
    \/ /\ y.t = "map"
       /\ DOMAIN y.v = {"emit_keys_to_console", "ssh_authorized_keys"}
       /\ IsOpt(y.v.emit_keys_to_console, "bool")
       /\ IsStrings(y.v.ssh_authorized_keys)

Opt(y, none) == IF y.t = "null" THEN none ELSE Some(y.v)
Strings(y) == [i \in DOMAIN y.v |-> y.v[i].v]

\* serde_yaml::from_value(merged).unwrap_or_default()
from_value(y) ==
    IF /\ y.t = "map"
       /\ DOMAIN y.v = {"hostname", "packages", "ssh"}
       /\ IsOpt(y.v.hostname, "str")
       /\ IsStrings(y.v.packages)
       /\ IsOptSsh(y.v.ssh)
    THEN CloudConfig(Opt(y.v.hostname, NoString), Strings(y.v.packages),
                     IF y.v.ssh.t = "null" THEN NoSsh
                     ELSE Some(SshConfig(Opt(y.v.ssh.v.emit_keys_to_console, NoBool),
                                         Strings(y.v.ssh.v.ssh_authorized_keys))))
    ELSE CloudConfigDefault

\* result.insert(0, item) in place of result.push(item)
push_new_AtFront(result, item) ==
    IF \E j \in DOMAIN result : result[j] = item
    THEN result
    ELSE << item >> \o result

\* result.push(item) whatever result contains
push_new_Unchecked(result, item) == Append(result, item)

\* if !result.contains(item) { result.push(item.clone()) }
push_new(result, item) ==
    IF \E j \in DOMAIN result : result[j] = item
    THEN result
    ELSE Append(result, item)

\* for item in seq { push_new } from item i on
RECURSIVE push_all(_, _, _)
push_all(result, seq, i) ==
    IF i > Len(seq) THEN result
    ELSE push_all(push_new(result, seq[i]), seq, i + 1)

\* the overlay wins even when it is null
merge_other_OverlayWins(base, overlay) == overlay

\* (base_value, Value::Null) => base_value; (_, overlay_value) => overlay_value
merge_other(base, overlay) == IF overlay.t = "null" THEN base ELSE overlay

RECURSIVE merge_yaml_values(_, _, _)
merge_yaml_values(base, overlay, list_strategy) ==
    CASE base.t = "map" /\ overlay.t = "map" ->
            Value("map", [key \in DOMAIN base.v \cup DOMAIN overlay.v |->
                    IF key \in DOMAIN overlay.v
                    THEN IF key \in DOMAIN base.v
                         THEN merge_yaml_values(base.v[key], overlay.v[key],
                                                list_strategy)
                         ELSE overlay.v[key]
                    ELSE base.v[key]])
      [] base.t = "seq" /\ overlay.t = "seq" ->
            Value("seq",
                  CASE list_strategy = "Append" -> push_all(base.v, overlay.v, 1)
                    [] list_strategy = "Prepend" -> push_all(overlay.v, base.v, 1)
                    [] list_strategy = "Replace" -> overlay.v
                    [] list_strategy = "NoReplace" -> base.v)
      [] OTHER -> merge_other(base, overlay)

merge_configs(base, overlay) ==
    from_value(merge_yaml_values(to_value(base), to_value(overlay), "Append"))

\* for config in configs.iter().skip(1) from config i on
RECURSIVE merge_from(_, _, _)
merge_from(result, cs, i) ==
    IF i > Len(cs) THEN result
    ELSE merge_from(merge_configs(result, cs[i]), cs, i + 1)

merge_all_configs(cs) ==
    IF cs = <<>> THEN CloudConfigDefault ELSE merge_from(cs[1], cs, 2)

\* the documents merged
Documents ==
    { CloudConfig(h, p, NoSsh) :
        h \in { NoString, Some("base"), Some("user") },
        p \in { <<>>, <<"a", "b">>, <<"b", "c">>, <<"a", "a">>, <<"c">> } }
    \cup { CloudConfig(Some("mid"), <<"b", "c">>, NoSsh) }
    \cup { CloudConfig(NoString, <<>>, Some(s)) :
             s \in { SshConfig(NoBool, <<"k1">>),
                     SshConfig(Some(TRUE), <<"k2">>),
                     SshConfig(Some(FALSE), <<"k1", "k1">>) } }

(* ---------------------------- config/loader.rs ------------------------- *)

\* A directory entry is [name, content]: the file name as its characters
\* and the hostname its document sets, or "<invalid>" when the file does
\* not parse.  The entries cloud.cfg.d/ can hold here:
DropinFiles ==
    { [name |-> << "1", ".", "c", "f", "g" >>, content |-> "one"],
      [name |-> << "1", "0", ".", "c", "f", "g" >>, content |-> "ten"],
      [name |-> << "1", "0", ".", "c", "f", "g" >>, content |-> "<invalid>"],
      [name |-> << "9", ".", "c", "f", "g" >>, content |-> "nine"],
      [name |-> << "9", ".", "c", "f", "g" >>, content |-> "<invalid>"],
      [name |-> << ".", "c", "f", "g" >>, content |-> "hidden"],
      [name |-> << "a", ".", "t", "x", "t" >>, content |-> "text"] }

\* Path::extension: what follows the last dot of the file name; None when
\* there is no dot or the only dot is the first character
extension(name) ==
    LET dots == { i \in DOMAIN name : name[i] = "." }
        last == CHOOSE i \in dots : \A j \in dots : j <= i
    IN  IF dots = {} \/ last = 1 THEN None
        ELSE SubSeq(name, last + 1, Len(name))

\* entries sorted the other way round
RECURSIVE Less_Descending(_, _)
Less_Descending(a, b) ==
    LET bytes == << ".", "0", "1", "9", "a", "c", "f", "g", "t", "x" >>
        ord(c) == CHOOSE k \in DOMAIN bytes : bytes[k] = c
    IN  IF b = <<>> THEN a # <<>>
        ELSE IF a = <<>> THEN FALSE
        ELSE IF Head(a) = Head(b) THEN Less_Descending(Tail(a), Tail(b))
        ELSE ord(Head(a)) > ord(Head(b))

\* the order entries.sort() puts two paths of one directory in: byte by
\* byte, a prefix first
RECURSIVE Less(_, _)
Less(a, b) ==
    LET bytes == << ".", "0", "1", "9", "a", "c", "f", "g", "t", "x" >>
        ord(c) == CHOOSE k \in DOMAIN bytes : bytes[k] = c
    IN  IF a = <<>> THEN b # <<>>
        ELSE IF b = <<>> THEN FALSE
        ELSE IF Head(a) = Head(b) THEN Less(Tail(a), Tail(b))
        ELSE ord(Head(a)) < ord(Head(b))

\* load_dropin_configs with load_config_file: the documents of the entries
\* with extension cfg that parse, in sorted order
load_dropin_configs(dir) ==
    LET entries == { e \in dir : extension(e.name) = << "c", "f", "g" >> }
        sorted == CHOOSE q \in [1 .. Cardinality(entries) -> entries] :
                     \A i, j \in DOMAIN q : i < j => Less(q[i].name, q[j].name)
        parse == SelectSeq(sorted, LAMBDA e : e.content # "<invalid>")
    IN  [i \in DOMAIN parse |-> CloudConfig(Some(parse[i].content), <<>>, NoSsh)]

\* no merge is going on
MergeIdle ==
    /\ dropins = {}
    /\ system_config = [configs |-> <<>>, merged |-> NoDoc]
    /\ configs = <<>>
    /\ pending = <<>>
    /\ merged = NoDoc

(* ---------------------------- datasources/mod.rs ----------------------- *)

\* the drivers of the datasources directory that probe a platform
Drivers == { "NoCloud", "EC2", "Azure", "GCE", "OpenStack" }

\* detect_datasource's vec![..]
datasources == << "NoCloud", "EC2" >>

\* for ds in datasources from driver i on: the drivers probed and the result
RECURSIVE probe_from(_, _, _)
probe_from(avail, i, seen) ==
    IF i > Len(datasources)
    THEN [probed |-> seen, result |-> "NoDatasource"]
    ELSE IF avail[datasources[i]]
         THEN [probed |-> Append(seen, datasources[i]), result |-> datasources[i]]
         ELSE probe_from(avail, i + 1, Append(seen, datasources[i]))

detect_datasource(avail) == probe_from(avail, 1, <<>>)

(* ---------------------------- datasources/ec2.rs ----------------------- *)

is_success(outcome) == outcome = "200"

\* the metadata service: how it answers the token PUT, a GET that carries
\* the token and a GET without it
\* a request ends without a response ("error") or with a status
Services ==
    [token : {"error", "200", "403"},
     with_token : {"error", "200", "404", "500"},
     plain : {"error", "200", "404", "500"}]

\* a request: its method, its url and whether it carries the token header
Request(method, url, token) == [method |-> method, url |-> url, token |-> token]

Result(ok, val, from) == [ok |-> ok, val |-> val, from |-> from]
NoResponse == Result(FALSE, "<not fetched>", "")

\* get_imdsv2_token: Some(token) or None
get_imdsv2_token(service) == is_success(service.token)

\* the fallback GET of fetch_metadata_path
fetch_plain(service, sent, url) ==
    [requests |-> Append(sent, Request("GET", url, FALSE)),
     response |-> CASE service.plain = "error" -> Result(FALSE, "Http", "plain")
                    [] is_success(service.plain) -> Result(TRUE, "text", "plain")
                    [] OTHER -> Result(FALSE, "Datasource", "plain")]

\* the token is asked for and then dropped: every GET goes out without it
fetch_metadata_path_NoToken(service, path) ==
    fetch_plain(service, << Request("PUT", "latest/api/token", FALSE) >>, path)

fetch_metadata_path(service, path) ==
    LET asked == << Request("PUT", "latest/api/token", FALSE) >>
    IN  IF get_imdsv2_token(service)
        THEN LET sent == Append(asked, Request("GET", path, TRUE))
             IN  CASE service.with_token = "error" ->
                        [requests |-> sent,
                         response |-> Result(FALSE, "Http", "with_token")]
                   [] is_success(service.with_token) ->
                        [requests |-> sent,
                         response |-> Result(TRUE, "text", "with_token")]
                   [] OTHER -> fetch_plain(service, sent, path)
        ELSE fetch_plain(service, asked, path)

\* get_userdata: one GET, with the token when there is one; 404 and every
\* other status without success give UserData::None
get_userdata(service) ==
    LET asked == << Request("PUT", "latest/api/token", FALSE) >>
        withToken == get_imdsv2_token(service)
        outcome == IF withToken THEN service.with_token ELSE service.plain
        from == IF withToken THEN "with_token" ELSE "plain"
    IN  [requests |-> Append(asked, Request("GET", "latest/user-data", withToken)),
         response |-> CASE outcome = "error" -> Result(FALSE, "Http", from)
                        [] outcome = "404" -> Result(TRUE, "None", from)
                        [] ~is_success(outcome) -> Result(TRUE, "None", from)
                        [] OTHER -> Result(TRUE, "text", from)]

MetadataPaths ==
    { "latest/meta-data/instance-id", "latest/meta-data/local-hostname",
      "latest/meta-data/placement/availability-zone" }

\* no detection and no fetch is going on
DatasourceIdle ==
    /\ available = [d \in Drivers |-> FALSE]
    /\ probed = <<>>
    /\ detected = "none"
    /\ imds = [token |-> "error", with_token |-> "error", plain |-> "error"]
    /\ requests = <<>>
    /\ response = NoResponse

(* ---------------------------- network/v1.rs ---------------------------- *)

InterfaceTypes == { "physical", "bond", "bridge", "vlan" }

\* ConfigItem: its type tag and, for an interface, its name.  address and
\* search are the lists of a nameserver item; for an interface they are what
\* apply_subnets collects from its subnets' dns_nameservers and dns_search.
ConfigItem(type, name) ==
    [type |-> type, name |-> name, address |-> <<>>, search |-> <<>>]

ConfigItems ==
    { ConfigItem(t, n) : t \in InterfaceTypes, n \in {"eth0", "bond0"} }
    \cup { ConfigItem(t, "") : t \in {"nameserver", "route"} }

\* the items of the documents that carry DNS settings
DnsItems ==
    { [ConfigItem(t, "eth0") EXCEPT !.address = d[1], !.search = d[2]] :
        t \in InterfaceTypes,
        d \in { << <<>>, <<>> >>, << <<"10.0.0.1">>, <<>> >>, << <<>>, <<"lan">> >> } }
    \cup { [ConfigItem("nameserver", "") EXCEPT !.address = d[1], !.search = d[2]] :
             d \in { << <<"8.8.8.8">>, <<>> >>, << <<>>, <<"corp">> >> } }

\* NetworkConfig: the keys of its four maps and, by interface type and key,
\* the common.nameservers of the entry
NetworkConfig(version, e, b, br, vl) ==
    [version |-> version, ethernets |-> e, bonds |-> b, bridges |-> br,
     vlans |-> vl, nameservers |-> [t \in InterfaceTypes |-> <<>>]]

\* NetworkConfig::default()
NoV2 == NetworkConfig(0, {}, {}, {}, {})

\* the keys a map holds after the inserts of the items of one type
Inserted(items, type) ==
    { items[i].name : i \in { j \in DOMAIN items : items[j].type = type } }

\* every interface lands in ethernets
to_v2_AllEthernets(items) ==
    NetworkConfig(2, UNION { Inserted(items, t) : t \in InterfaceTypes },
                  {}, {}, {})

\* global_dns and global_search: the lists of the nameserver items from
\* item i on, in item order
RECURSIVE global_ns(_, _)
global_ns(items, i) ==
    IF i > Len(items) THEN [addresses |-> <<>>, search |-> <<>>]
    ELSE LET rest == global_ns(items, i + 1)
         IN  IF items[i].type = "nameserver"
             THEN [addresses |-> items[i].address \o rest.addresses,
                   search |-> items[i].search \o rest.search]
             ELSE rest

\* an insert replaces the entry of an earlier item of the same name; the
\* global nameservers go to the entries of ethernets whose own address list
\* is empty
to_v2(items) ==
    LET global == global_ns(items, 1)
        last(t, n) == CHOOSE i \in DOMAIN items :
                         /\ items[i].type = t /\ items[i].name = n
                         /\ \A j \in DOMAIN items :
                               (items[j].type = t /\ items[j].name = n) => j <= i
        own(t, n) == [addresses |-> items[last(t, n)].address,
                      search |-> items[last(t, n)].search]
        nameservers(t, n) ==
            IF /\ global.addresses # <<>> \/ global.search # <<>>
               /\ t = "physical"
               /\ own(t, n).addresses = <<>>
            THEN global ELSE own(t, n)
    IN  [NetworkConfig(2, Inserted(items, "physical"), Inserted(items, "bond"),
                       Inserted(items, "bridge"), Inserted(items, "vlan"))
           EXCEPT !.nameservers =
                    [t \in InterfaceTypes |->
                       [n \in Inserted(items, t) |-> nameservers(t, n)]]]

\* HashMap::keys(): the keys, each once, in an order the hasher decides
Keys(map) ==
    { q \in [1 .. Cardinality(map) -> map] :
        \A i, j \in DOMAIN q : i # j => q[i] # q[j] }

\* what interface_names can return
interface_names(c) ==
    { e \o b \o br \o vl : e \in Keys(c.ethernets), b \in Keys(c.bonds),
                           br \in Keys(c.bridges), vl \in Keys(c.vlans) }

(* ---------------------------- network/render/eni.rs -------------------- *)

DigitChars == << "0", "1", "2", "3", "4", "5", "6", "7", "8", "9" >>

\* format!("{}", n)
RECURSIVE Decimal(_)
Decimal(n) ==
    IF n < 10 THEN << DigitChars[n + 1] >>
    ELSE Decimal(n \div 10) \o << DigitChars[(n % 10) + 1] >>

\* a u32 as its two 16-bit halves
AllOnes == [hi |-> 65535, lo |-> 65535]

\* u32's << for a shift below 32: the bits shifted out are lost
Shl32(x, n) ==
    IF n < 16
    THEN [hi |-> ((x.hi * 2 ^ n) % 65536) + ((x.lo * 2 ^ n) \div 65536),
          lo |-> (x.lo * 2 ^ n) % 65536]
    ELSE [hi |-> (x.lo * 2 ^ (n - 16)) % 65536, lo |-> 0]

Panic == << "<panic>" >>

\* the shift by 32 - prefix overflows for prefix 0: it panics where overflow
\* checks are compiled in and shifts by the amount modulo 32 where they are not
prefix_to_netmask(p, checks) ==
    IF p < 32 /\ 32 - p >= 32 /\ checks
    THEN Panic
    ELSE LET mask == IF p >= 32 THEN AllOnes
                     ELSE Shl32(AllOnes, (32 - p) % 32)
         IN  Decimal(mask.hi \div 256) \o << "." >>
             \o Decimal(mask.hi % 256) \o << "." >>
             \o Decimal(mask.lo \div 256) \o << "." >>
             \o Decimal(mask.lo % 256)

(* ---------------------------- network/v1.rs: netmask ------------------- *)

RECURSIVE DecimalValue(_)
DecimalValue(s) ==
    IF s = <<>> THEN 0
    ELSE 10 * DecimalValue(SubSeq(s, 1, Len(s) - 1))
         + (CHOOSE d \in 0 .. 9 : DigitChars[d + 1] = s[Len(s)])

\* str::parse::<u8>: digits only (here), at most 255
parse_u8(s) ==
    IF s # <<>> /\ (\A i \in DOMAIN s : \E d \in DOMAIN DigitChars : DigitChars[d] = s[i]) /\ DecimalValue(s) <= 255
    THEN Some(DecimalValue(s))
    ELSE [some |-> FALSE, v |-> 0]

\* str::split('.') from character i on, cur being the piece read so far
RECURSIVE split(_, _, _)
split(s, i, cur) ==
    IF i > Len(s) THEN << cur >>
    ELSE IF s[i] = "." THEN << cur >> \o split(s, i + 1, <<>>)
         ELSE split(s, i + 1, Append(cur, s[i]))

\* u8::count_ones
RECURSIVE count_ones(_)
count_ones(n) == IF n = 0 THEN 0 ELSE (n % 2) + count_ones(n \div 2)

RECURSIVE sum_ones(_, _)
sum_ones(octets, i) ==
    IF i > Len(octets) THEN 0
    ELSE (count_ones(octets[i]) + sum_ones(octets, i + 1)) % 256

netmask_to_prefix(m) ==
    IF parse_u8(m).some THEN parse_u8(m).v
    ELSE LET pieces == split(m, 1, <<>>)
             parsed == [i \in DOMAIN pieces |-> parse_u8(pieces[i])]
             octets == [i \in 1 .. Len(SelectSeq(parsed, LAMBDA o : o.some)) |->
                          SelectSeq(parsed, LAMBDA o : o.some)[i].v]
         IN  IF Len(octets) # 4 THEN 24 ELSE sum_ones(octets, 1)

(* ---------------------------- network/render/mod.rs -------------------- *)

\* RendererType::from_hint: the hint in lower case names a renderer or none
from_hint(h) ==
    LET to_lowercase == CASE h = "NetworkManager" -> "networkmanager"
                          [] h = "ENI" -> "eni"
                          [] OTHER -> h
    IN  CASE to_lowercase \in { "networkd", "systemd-networkd" } -> "Networkd"
          [] to_lowercase \in { "networkmanager", "network-manager", "nm" } ->
                "NetworkManager"
          [] to_lowercase \in { "eni", "interfaces", "ifupdown" } -> "Eni"
          [] OTHER -> "<none>"

\* detection that looks for the networkd binary only
detect_renderer_BinaryOnly(exists) ==
    IF "/lib/systemd/systemd-networkd" \in exists THEN "Networkd"
    ELSE IF "/usr/sbin/NetworkManager" \in exists \/ "/usr/bin/nmcli" \in exists
         THEN "NetworkManager"
         ELSE IF "/etc/network/interfaces" \in exists THEN "Eni" ELSE "<none>"

\* RendererType::detect
detect_renderer(exists) ==
    IF /\ "/run/systemd/system" \in exists
       /\ "/lib/systemd/systemd-networkd" \in exists
    THEN "Networkd"
    ELSE IF "/usr/sbin/NetworkManager" \in exists \/ "/usr/bin/nmcli" \in exists
         THEN "NetworkManager"
         ELSE IF "/etc/network/interfaces" \in exists THEN "Eni" ELSE "<none>"

\* apply_network_config: the renderer it renders with, or the error
apply_network_config(renderer_hint, config_renderer, exists) ==
    LET renderer_type ==
            IF renderer_hint # "<none>" THEN from_hint(renderer_hint)
            ELSE IF config_renderer # "<none>" THEN from_hint(config_renderer)
                 ELSE detect_renderer(exists)
    IN  IF renderer_type = "<none>" THEN "Module" ELSE renderer_type

\* no conversion is going on
NetworkIdle ==
    /\ hint = "<none>"
    /\ renderer = "<none>"
    /\ paths = {}
    /\ used = "<idle>"
    /\ v1 = <<>>
    /\ v2 = NoV2
    /\ names = None
    /\ prefix = 0
    /\ build = "release"
    /\ netmask = None
    /\ back = [some |-> FALSE, v |-> 0]

(* ---------------------------- userdata/mod.rs -------------------------- *)

\* User-data bytes are the layers around a document, outermost first, and
\* the document: "gzip" is a gzip stream (it starts with the magic bytes
\* 1f 8b), "base64" is base64 text, "#cloud-config" and "#!" are texts with
\* that header, "binary" is bytes that are not UTF-8.  Taking the head off
\* is what decompressing or decoding the outermost layer gives.

\* ContentType::detect: base64 text is ASCII, so from_utf8 succeeds and
\* detect_from_text sees it; it starts with no header and holds none of
\* ": ", "- " and "---", so it is Unknown
detect(data) ==
    LET from_utf8 == data = <<>> \/ Head(data) # "binary"
        looks_like_base64 == data # <<>> /\ Head(data) = "base64"
    IN  IF data # <<>> /\ Head(data) = "gzip" THEN "Gzip"
        ELSE IF ~from_utf8
             THEN IF looks_like_base64 THEN "Base64" ELSE "Unknown"
             ELSE CASE data = <<>> -> "Unknown"
                    [] Head(data) = "#cloud-config" -> "CloudConfig"
                    [] Head(data) = "#!" -> "Script"
                    [] OTHER -> "Unknown"

\* parse_userdata, with decompress_if_needed and decode_base64
RECURSIVE parse_userdata(_)
parse_userdata(data) ==
    IF data = <<>> THEN [kind |-> "None", data |-> <<>>]
    ELSE LET d == IF Head(data) = "gzip" THEN Tail(data) ELSE data
             content_type == detect(d)
         IN  CASE content_type = "CloudConfig" -> [kind |-> "CloudConfig", data |-> d]
               [] content_type = "Script" -> [kind |-> "Script", data |-> d]
               [] content_type = "Gzip" -> [kind |-> "InvalidData", data |-> <<>>]
               [] content_type = "Base64" -> parse_userdata(Tail(d))
               [] OTHER -> [kind |-> "Script", data |-> d]

(* ---------------------------- modules/runcmd.rs ------------------------ *)

\* execute_runcmd from command i on.  A command ends "success", "nonzero"
\* (it ran and exited with a failure status), "spawn_error" (it could not
\* be started) or "empty" (an empty argument list: nothing is run).
RECURSIVE execute_runcmd(_, _, _)
execute_runcmd(cmds, i, ran) ==
    IF i > Len(cmds) THEN [ret |-> "Ok", ran |-> ran]
    ELSE IF cmds[i] = "spawn_error"
         THEN [ret |-> "Command", ran |-> Append(ran, i)]
         ELSE execute_runcmd(cmds, i + 1, Append(ran, i))

\* nothing is being parsed or executed
UserdataIdle ==
    /\ raw = <<>>
    /\ userdata = [kind |-> "<none>", data |-> <<>>]
    /\ commands = <<>>
    /\ executed = [ret |-> "<none>", ran |-> <<>>]

FnIdle == MergeIdle /\ DatasourceIdle /\ NetworkIdle /\ UserdataIdle

(* ---------------------------- Init ------------------------------------- *)

\* no program run has started
PipeInit ==
    /\ run = 0
    /\ stages = <<>>
    /\ si = 1
    /\ pcP = "idle"
    /\ config = DefaultConfig
    /\ log = <<>>
    /\ exit = "none"

\* InstanceState::with_paths on an empty base directory
StoreInit ==
    /\ cloudConfigFile = [i \in DirIds |-> AbsentFile]
    /\ userDataFile = [i \in DirIds |-> AbsentFile]
    /\ bootFinished = {}
    /\ statusFile = NoStatus
    /\ PipeInit
    /\ dirs = {}
    /\ semFiles = {}
    /\ cachedFile = NoFile
    /\ previousFile = NoFile
    /\ link = NoLink
    /\ instance_id = None
    /\ semaphores = NoManager
    /\ pc = "idle"
    /\ arg = None
    /\ is_new = FALSE
    /\ ret = Ret("none", "", "", "")
    /\ faults = 0
    /\ calls = 0

Init == StoreInit /\ FnIdle

\* an injected file-system error is available
CanFail == faults < MaxFaults

\* a step of set_instance_id returns Err through `?`
Fail ==
    /\ faults' = faults + 1
    /\ pc' = "idle"
    /\ ret' = Ret("set_instance_id", "", "", "err")

(* ---------------------------- InstanceState ---------------------------- *)

\* InstanceState::initialize
Initialize ==
    /\ pc = "idle"
    /\ dirs' = dirs \cup {data_dir, instances_dir}
    /\ ret' = Ret("initialize", "", "", "ok")
    /\ UNCHANGED << semFiles, cachedFile, previousFile, link, instance_id,
                    semaphores, pc, arg, is_new, faults, calls >>
    /\ UNCHANGED << instFiles, pipeVars, fnVars >>

\* a caller enters set_instance_id(id)
SetInstanceId(id) ==
    /\ pc = "idle"
    /\ calls < MaxCalls
    /\ calls' = calls + 1
    /\ pc' = "check"
    /\ arg' = id
    /\ is_new' = FALSE
    /\ ret' = Ret("set_instance_id", "", "", "pending")
    /\ UNCHANGED << disk, instance_id, semaphores, faults >>
    /\ UNCHANGED << instFiles, pipeVars, fnVars >>

\* InstanceState::check_instance_change
CheckInstanceChange ==
    /\ pc = "check"
    /\ IF cachedFile # NoFile
       THEN \/ /\ IF Trim(cachedFile) # arg
                  THEN /\ previousFile' = Trim(cachedFile)
                       /\ is_new' = TRUE
                  ELSE /\ is_new' = FALSE
                       /\ UNCHANGED previousFile
               /\ pc' = "mkdir_instance"
               /\ UNCHANGED << ret, faults >>
            \/ /\ CanFail
               /\ Fail
               /\ UNCHANGED << previousFile, is_new >>
       ELSE /\ is_new' = TRUE
            /\ pc' = "mkdir_instance"
            /\ UNCHANGED << previousFile, ret, faults >>
    /\ UNCHANGED << dirs, semFiles, cachedFile, link, instance_id, semaphores,
                    arg, calls >>
    /\ UNCHANGED << instFiles, pipeVars, fnVars >>

\* fs::create_dir_all(&instance_dir)
CreateInstanceDir ==
    /\ pc = "mkdir_instance"
    /\ \/ /\ dirs' = dirs \cup Ancestors(instance_dir(arg))
          /\ pc' = "mkdir_sem"
          /\ UNCHANGED << ret, faults >>
       \/ /\ CanFail
          /\ Fail
          /\ UNCHANGED dirs
    /\ UNCHANGED << semFiles, cachedFile, previousFile, link, instance_id,
                    semaphores, arg, is_new, calls >>
    /\ UNCHANGED << instFiles, pipeVars, fnVars >>

\* fs::create_dir_all(&sem_dir)
CreateSemDir ==
    /\ pc = "mkdir_sem"
    /\ \/ /\ dirs' = dirs \cup Ancestors(sem_dir(arg))
          /\ pc' = "unlink"
          /\ UNCHANGED << ret, faults >>
       \/ /\ CanFail
          /\ Fail
          /\ UNCHANGED dirs
    /\ UNCHANGED << semFiles, cachedFile, previousFile, link, instance_id,
                    semaphores, arg, is_new, calls >>
    /\ UNCHANGED << instFiles, pipeVars, fnVars >>

\* update_instance_link, first half: fs::remove_file(&link_path).await.ok()
RemoveInstanceLink ==
    /\ pc = "unlink"
    /\ pc' = "symlink"
    /\ IF link # NoLink
       THEN \/ /\ link' = NoLink
               /\ UNCHANGED faults
            \/ /\ CanFail
               /\ faults' = faults + 1
               /\ UNCHANGED link
       ELSE UNCHANGED << link, faults >>
    /\ UNCHANGED << dirs, semFiles, cachedFile, previousFile, instance_id,
                    semaphores, arg, is_new, ret, calls >>
    /\ UNCHANGED << instFiles, pipeVars, fnVars >>

\* symlink creation that treats an existing link as success
CreateInstanceLink_KeepOld ==
    /\ pc = "symlink"
    /\ pc' = "write_cache"
    /\ link' = IF link # NoLink THEN link ELSE instance_dir(arg)
    /\ UNCHANGED << dirs, semFiles, cachedFile, previousFile, instance_id,
                    semaphores, arg, is_new, ret, faults, calls >>
    /\ UNCHANGED << instFiles, pipeVars, fnVars >>

\* update_instance_link, second half: std::os::unix::fs::symlink(&target, &link_path)?
CreateInstanceLink ==
    /\ pc = "symlink"
    /\ IF link # NoLink
       THEN /\ pc' = "idle"
            /\ ret' = Ret("set_instance_id", "", "", "err")
            /\ UNCHANGED << link, faults >>
       ELSE \/ /\ link' = instance_dir(arg)
               /\ pc' = "write_cache"
               /\ UNCHANGED << ret, faults >>
            \/ /\ CanFail
               /\ Fail
               /\ UNCHANGED link
    /\ UNCHANGED << dirs, semFiles, cachedFile, previousFile, instance_id,
                    semaphores, arg, is_new, calls >>
    /\ UNCHANGED << instFiles, pipeVars, fnVars >>

\* fs::write(self.paths.cached_instance_id(), instance_id)
WriteCachedInstanceId ==
    /\ pc = "write_cache"
    /\ IF data_dir \in dirs
       THEN \/ /\ cachedFile' = arg
               /\ pc' = "finish"
               /\ UNCHANGED << ret, faults >>
            \/ /\ CanFail
               /\ Fail
               /\ UNCHANGED cachedFile
       ELSE /\ pc' = "idle"
            /\ ret' = Ret("set_instance_id", "", "", "err")
            /\ UNCHANGED << cachedFile, faults >>
    /\ UNCHANGED << dirs, semFiles, previousFile, link, instance_id,
                    semaphores, arg, is_new, calls >>
    /\ UNCHANGED << instFiles, pipeVars, fnVars >>

\* set_instance_id's tail: the manager, the id, Ok(is_new_instance)
FinishSetInstanceId ==
    /\ pc = "finish"
    /\ semaphores' = sem_dir(arg)
    /\ instance_id' = arg
    /\ pc' = "idle"
    /\ ret' = Ret("set_instance_id", "", "", IF is_new THEN "true" ELSE "false")
    /\ UNCHANGED << disk, arg, is_new, faults, calls >>
    /\ UNCHANGED << instFiles, pipeVars, fnVars >>

\* InstanceState::load_cached_instance_id
LoadCachedInstanceId ==
    /\ pc = "idle"
    /\ IF cachedFile # NoFile /\ Trim(cachedFile) # <<>>
       THEN /\ instance_id' = Trim(cachedFile)
            /\ semaphores' = sem_dir(Trim(cachedFile))
            /\ ret' = Ret("load_cached_instance_id", "", "", "some")
       ELSE /\ ret' = Ret("load_cached_instance_id", "", "", "none")
            /\ UNCHANGED << instance_id, semaphores >>
    /\ UNCHANGED << disk, pc, arg, is_new, faults, calls >>
    /\ UNCHANGED << instFiles, pipeVars, fnVars >>

\* InstanceState::clean
Clean ==
    /\ pc = "idle"
    /\ dirs' = { p \in dirs : ~Below(p, instances_dir) /\ ~Below(p, data_dir) }
    /\ semFiles' = {}
    /\ link' = NoLink
    /\ cachedFile' = NoFile
    /\ previousFile' = NoFile
    /\ ret' = Ret("clean", "", "", "ok")
    /\ UNCHANGED << instance_id, semaphores, pc, arg, is_new, faults, calls >>
    /\ cloudConfigFile' = [i \in DOMAIN cloudConfigFile |-> AbsentFile]
    /\ userDataFile' = [i \in DOMAIN userDataFile |-> AbsentFile]
    /\ bootFinished' = {}
    /\ statusFile' = NoStatus
    /\ UNCHANGED << pipeVars, fnVars >>

\* InstanceState::mark_boot_finished
MarkBootFinished ==
    /\ pc = "idle"
    /\ IF instance_id = None
       THEN /\ ret' = Ret("mark_boot_finished", "", "", "ok")
            /\ UNCHANGED << bootFinished, faults >>
       ELSE IF instance_dir(instance_id) \in dirs
            THEN \/ /\ bootFinished' = bootFinished \cup {instance_id}
                    /\ ret' = Ret("mark_boot_finished", "", "", "ok")
                    /\ UNCHANGED faults
                 \/ /\ CanFail
                    /\ faults' = faults + 1
                    /\ ret' = Ret("mark_boot_finished", "", "", "err")
                    /\ UNCHANGED bootFinished
            ELSE /\ ret' = Ret("mark_boot_finished", "", "", "err")
                 /\ UNCHANGED << bootFinished, faults >>
    /\ UNCHANGED << disk, instance_id, semaphores, pc, arg, is_new, calls,
                    cloudConfigFile, userDataFile, statusFile, pipeVars, fnVars >>

\* InstanceState::save_userdata and save_cloud_config (save_vendordata and
\* save_datasource are the same code for two more files): the file is
\* written under the instance directory of whatever id is set
Save(file, data) ==
    /\ pc = "idle"
    /\ IF instance_id = None
       THEN /\ ret' = Ret(file, "", "", "ok")
            /\ UNCHANGED << cloudConfigFile, userDataFile, faults >>
       ELSE IF instance_dir(instance_id) \in dirs
            THEN \/ /\ IF file = "save_userdata"
                       THEN /\ userDataFile' =
                                  [userDataFile EXCEPT ![instance_id] = data]
                            /\ UNCHANGED cloudConfigFile
                       ELSE /\ cloudConfigFile' =
                                  [cloudConfigFile EXCEPT ![instance_id] = data]
                            /\ UNCHANGED userDataFile
                    /\ ret' = Ret(file, "", "", "ok")
                    /\ UNCHANGED faults
                 \/ /\ CanFail
                    /\ faults' = faults + 1
                    /\ ret' = Ret(file, "", "", "err")
                    /\ UNCHANGED << cloudConfigFile, userDataFile >>
            ELSE /\ ret' = Ret(file, "", "", "err")
                 /\ UNCHANGED << cloudConfigFile, userDataFile, faults >>
    /\ UNCHANGED << disk, instance_id, semaphores, pc, arg, is_new, calls,
                    bootFinished, statusFile, pipeVars, fnVars >>

\* InstanceState::update_status
UpdateStatus(status) ==
    /\ pc = "idle"
    /\ IF data_dir \in dirs
       THEN \/ /\ statusFile' = status
               /\ ret' = Ret("update_status", "", "", "ok")
               /\ UNCHANGED faults
            \/ /\ CanFail
               /\ faults' = faults + 1
               /\ ret' = Ret("update_status", "", "", "err")
               /\ UNCHANGED statusFile
       ELSE /\ ret' = Ret("update_status", "", "", "err")
            /\ UNCHANGED << statusFile, faults >>
    /\ UNCHANGED << disk, instance_id, semaphores, pc, arg, is_new, calls,
                    cloudConfigFile, userDataFile, bootFinished, pipeVars, fnVars >>

\* InstanceState::read_status
read_status ==
    IF statusFile # NoStatus THEN statusFile
    ELSE Status("not-started", FALSE, "", "")

\* a new process: InstanceState::new
New ==
    /\ pc = "idle"
    /\ instance_id # None
    /\ instance_id' = None
    /\ semaphores' = NoManager
    /\ ret' = Ret("new", "", "", "ok")
    /\ UNCHANGED << disk, pc, arg, is_new, faults, calls >>
    /\ UNCHANGED << instFiles, pipeVars, fnVars >>

(* ---------------------------- SemaphoreManager ------------------------- *)

\* SemaphoreManager::mark_done on the manager of InstanceState::semaphores()
MarkDone(module, freq) ==
    /\ pc = "idle"
    /\ semaphores # NoManager
    /\ LET path == sem_path(semaphores, module, freq) IN
       IF path = NoPath
       THEN /\ ret' = Ret("mark_done", module, freq, "ok")
            /\ UNCHANGED << dirs, semFiles, faults >>
       ELSE \/ /\ dirs' = dirs \cup Ancestors(path.dir)
               /\ semFiles' = semFiles \cup {path}
               /\ ret' = Ret("mark_done", module, freq, "ok")
               /\ UNCHANGED faults
            \/ /\ CanFail
               /\ faults' = faults + 1
               /\ \/ UNCHANGED dirs
                  \/ dirs' = dirs \cup Ancestors(path.dir)
               /\ ret' = Ret("mark_done", module, freq, "err")
               /\ UNCHANGED semFiles
    /\ UNCHANGED << cachedFile, previousFile, link, instance_id, semaphores,
                    pc, arg, is_new, calls >>
    /\ UNCHANGED << instFiles, pipeVars, fnVars >>

\* SemaphoreManager::clear
Clear(module, freq) ==
    /\ pc = "idle"
    /\ semaphores # NoManager
    /\ semFiles' = semFiles \ {sem_path(semaphores, module, freq)}
    /\ ret' = Ret("clear", module, freq, "ok")
    /\ UNCHANGED << dirs, cachedFile, previousFile, link, instance_id,
                    semaphores, pc, arg, is_new, faults, calls >>
    /\ UNCHANGED << instFiles, pipeVars, fnVars >>

\* SemaphoreManager::clear_all
ClearAll ==
    /\ pc = "idle"
    /\ semaphores # NoManager
    /\ dirs' = { p \in dirs : ~Below(p, semaphores) }
    /\ semFiles' = { f \in semFiles : ~Below(f.dir, semaphores) }
    /\ ret' = Ret("clear_all", "", "", "ok")
    /\ UNCHANGED << cachedFile, previousFile, link, instance_id, semaphores,
                    pc, arg, is_new, faults, calls >>
    /\ UNCHANGED << instFiles, pipeVars, fnVars >>

(* ---------------------------- run_stages -------------------------------- *)

\* an entry of log: ev is "start", "done", "error" (of a stage) or
\* "body_ok", "body_err" (of a module body, idx the entity within it)
Ev(ev, module, idx, err) ==
    [run |-> run, stage |-> stages[si], ev |-> ev, module |-> module,
     idx |-> idx, err |-> err]

\* the disk a program run finds: the instance store as an earlier boot left
\* it, with the cloud-config and user-data files of the cached instance
InitPipeline ==
    /\ PipeInit
    /\ instance_id = None
    /\ semaphores = NoManager
    /\ pc = "idle"
    /\ arg = None
    /\ is_new = FALSE
    /\ ret = Ret("none", "", "", "")
    /\ faults = 0
    /\ calls = 0
    /\ semFiles = {}
    /\ previousFile = NoFile
    /\ bootFinished = {}
    /\ statusFile = NoStatus
    /\ \/ /\ cachedFile = NoFile
          /\ dirs = {data_dir, instances_dir}
          /\ link = NoLink
          /\ cloudConfigFile = [i \in DirIds |-> AbsentFile]
          /\ userDataFile = [i \in DirIds |-> AbsentFile]
       \/ \E id \in {<<"a">>} :
            /\ cachedFile = id
            /\ dirs = {data_dir} \cup Ancestors(sem_dir(id))
            /\ link = instance_dir(id)
            /\ \E cc \in {AbsentFile, InvalidFile} \cup {ConfigFile(c) : c \in Configs},
                  ud \in {AbsentFile, InvalidFile, ScriptFile, ConfigFile(FullConfig)} :
                 /\ cloudConfigFile = [i \in DirIds |-> IF i = id THEN cc ELSE AbsentFile]
                 /\ userDataFile = [i \in DirIds |-> IF i = id THEN ud ELSE AbsentFile]
    /\ FnIdle

\* main: a sub-command calls run_stages with its stage list
StartRun(cmd) ==
    /\ pcP = "idle"
    /\ run < MaxRuns
    /\ run' = run + 1
    /\ stages' = StageList(cmd)
    /\ si' = 1
    /\ pcP' = "next"
    /\ config' = DefaultConfig
    /\ exit' = "running"
    /\ UNCHANGED << storeVars, instFiles, fnVars, log >>

\* run_stages: the loop takes the next stage and calls run_stage
RunStage ==
    /\ pcP = "next"
    /\ si <= Len(stages)
    /\ log' = Append(log, Ev("start", "", 0, ""))
    /\ pcP' = IF stages[si] = "config" THEN "load" ELSE stages[si]
    /\ UNCHANGED << storeVars, instFiles, fnVars, run, stages, si, config, exit >>

\* run_stages: the loop is over, Ok(())
RunStagesOk ==
    /\ pcP = "next"
    /\ si > Len(stages)
    /\ pcP' = "idle"
    /\ exit' = "ok"
    /\ UNCHANGED << storeVars, instFiles, fnVars, run, stages, si, config, log >>

\* run_stages that goes on with the next stage after a stage has failed
StageErr_Continue(l, e) ==
    /\ log' = Append(l, Ev("error", "", 0, e))
    /\ si' = si + 1
    /\ pcP' = "next"
    /\ UNCHANGED exit

\* run_stage(..).await? with Err(e): run_stages returns the error
StageErr(l, e) ==
    /\ log' = Append(l, Ev("error", "", 0, e))
    /\ exit' = e
    /\ pcP' = "idle"
    /\ UNCHANGED si

\* run_stage(..).await? with Ok: the loop goes on
StageOk ==
    /\ log' = Append(log, Ev("done", "", 0, ""))
    /\ si' = si + 1
    /\ pcP' = "next"
    /\ UNCHANGED exit

(* ---------------------------- stages/local.rs -------------------------- *)

\* apply_network_configuration over the paths from i on
RECURSIVE ApplyNetworkConfiguration(_, _)
ApplyNetworkConfiguration(nc, i) ==
    IF i > Len(nc) THEN "ok"
    ELSE CASE nc[i] \in {"absent", "unreadable"} -> ApplyNetworkConfiguration(nc, i + 1)
           [] nc[i] = "invalid" -> "InvalidData"
           [] nc[i] = "apply_fails" -> "Module"
           [] OTHER -> "ok"

\* stages::local::run
LocalStage ==
    /\ pcP = "local"
    /\ \E nc \in [1 .. 4 -> NetConfigStates] :
         LET r == ApplyNetworkConfiguration(nc, 1) IN
         IF r = "ok" THEN StageOk ELSE StageErr(log, r)
    /\ UNCHANGED << storeVars, instFiles, fnVars, run, stages, config >>

(* ---------------------------- stages/network.rs ------------------------ *)

\* stages::network::run
NetworkStage ==
    /\ pcP = "network"
    /\ StageOk
    /\ UNCHANGED << storeVars, instFiles, fnVars, run, stages, config >>

(* ---------------------------- stages/final_stage.rs -------------------- *)

\* stages::final_stage::run
FinalStage ==
    /\ pcP = "final"
    /\ StageOk
    /\ UNCHANGED << storeVars, instFiles, fnVars, run, stages, config >>

(* ---------------------------- stages/config.rs ------------------------- *)

\* the steps of the Config stage with the packages run after everything else
ConfigOrder_PackagesLast ==
    << "load", "hostname", "timezone", "locale", "groups", "users",
       "write_files", "write_deferred", "package_update", "package_upgrade",
       "package_install", "config_done" >>

\* the steps of the Config stage in the order run, apply_system_config and
\* apply_packages take them
ConfigOrder ==
    << "load", "hostname", "timezone", "locale", "groups", "users",
       "write_files", "package_update", "package_upgrade", "package_install",
       "write_deferred", "config_done" >>

\* the step that follows step
Following(step) ==
    ConfigOrder[(CHOOSE k \in 1 .. Len(ConfigOrder) : ConfigOrder[k] = step) + 1]

\* the rest of the state a Config stage step leaves alone
ConfigFrame == UNCHANGED << dirs, semFiles, cachedFile, previousFile, link,
                            instance_id, semaphores, pc, arg, is_new, ret,
                            calls, instFiles, fnVars, run, stages >>

\* load_cloud_config
LoadCloudConfig ==
    /\ pcP = "load"
    /\ LET id == Trim(cachedFile)
           found == cachedFile # NoFile /\ id # <<>>
           cc == IF found THEN cloudConfigFile[id] ELSE AbsentFile
           ud == IF found THEN userDataFile[id] ELSE AbsentFile
           loaded(c) == /\ config' = c
                        /\ pcP' = Following("load")
                        /\ UNCHANGED << log, si, exit, faults >>
           failed(e) == /\ StageErr(log, e)
                        /\ UNCHANGED << config, faults >>
       IN \/ CASE cc.kind = "config" -> loaded(cc.cfg)
               [] cc.kind \in {"invalid", "script"} -> failed("InvalidData")
               [] ud.kind = "config" -> loaded(ud.cfg)
               [] ud.kind = "invalid" -> failed("InvalidData")
               [] OTHER -> loaded(DefaultConfig)
          \/ /\ cachedFile # NoFile
             /\ CanFail
             /\ faults' = faults + 1
             /\ StageErr(log, "Io")
             /\ UNCHANGED config
    /\ ConfigFrame

\* a warn-and-continue step that leaves the module's marker behind when the
\* body has failed
WarnAndContinue_MarkOnFailure(step, present) ==
    /\ pcP = step
    /\ pcP' = Following(step)
    /\ IF present
       THEN \/ /\ log' = Append(log, Ev("body_ok", step, 1, ""))
               /\ UNCHANGED << faults, semFiles >>
            \/ /\ CanFail
               /\ faults' = faults + 1
               /\ log' = Append(log, Ev("body_err", step, 1, "Command"))
               /\ semFiles' = semFiles \cup
                     {sem_path(sem_dir(Trim(cachedFile)), step, "PerInstance")}
       ELSE UNCHANGED << log, faults, semFiles >>
    /\ UNCHANGED << si, exit, config >>
    /\ UNCHANGED << dirs, cachedFile, previousFile, link, instance_id,
                    semaphores, pc, arg, is_new, ret, calls, instFiles, fnVars, run,
                    stages >>

\* a module body that the stage only warns about (hostname, timezone,
\* locale, package update and upgrade): it runs when the field is set, and
\* the stage goes on whether it succeeds or not
WarnAndContinue(step, present) ==
    /\ pcP = step
    /\ pcP' = Following(step)
    /\ IF present
       THEN \/ /\ log' = Append(log, Ev("body_ok", step, 1, ""))
               /\ UNCHANGED faults
            \/ /\ CanFail
               /\ faults' = faults + 1
               /\ log' = Append(log, Ev("body_err", step, 1, "Command"))
       ELSE UNCHANGED << log, faults >>
    /\ UNCHANGED << si, exit, config >>
    /\ ConfigFrame

\* create_groups / create_users over n entities: every entity succeeds, or
\* the first error returns through `?` and the rest is not attempted
CreateEntities(step, n) ==
    /\ pcP = step
    /\ pcP' = Following(step)
    /\ \/ /\ log' = log \o [i \in 1 .. n |-> Ev("body_ok", step, i, "")]
          /\ UNCHANGED faults
       \/ /\ CanFail
          /\ faults' = faults + 1
          /\ \E j \in 1 .. n :
               log' = log \o [i \in 1 .. j |->
                               IF i < j THEN Ev("body_ok", step, i, "")
                               ELSE Ev("body_err", step, i, "UserGroup")]
    /\ UNCHANGED << si, exit, config >>
    /\ ConfigFrame

\* apply_write_files(config, deferred)
ApplyWriteFiles(deferred) ==
    LET step == IF deferred THEN "write_deferred" ELSE "write_files"
        all == [i \in 1 .. Len(config.write_files) |-> i]
        files == SelectSeq(all, LAMBDA i : config.write_files[i] = deferred)
    IN /\ pcP = step
       /\ pcP' = Following(step)
       /\ \E bad \in SUBSET { files[k] : k \in 1 .. Len(files) } :
            /\ Cardinality(bad) <= MaxFaults - faults
            /\ faults' = faults + Cardinality(bad)
            /\ log' = log \o [k \in 1 .. Len(files) |->
                               IF files[k] \in bad
                               THEN Ev("body_err", step, files[k], "Io")
                               ELSE Ev("body_ok", step, files[k], "")]
       /\ UNCHANGED << si, exit, config >>
       /\ ConfigFrame

\* apply_packages that only warns when the install has failed
InstallPackages_WarnAndContinue ==
    /\ pcP = "package_install"
    /\ pcP' = Following("package_install")
    /\ IF config.packages
       THEN \/ /\ log' = Append(log, Ev("body_ok", "package_install", 1, ""))
               /\ UNCHANGED faults
            \/ /\ CanFail
               /\ faults' = faults + 1
               /\ log' = Append(log, Ev("body_err", "package_install", 1, "Module"))
       ELSE UNCHANGED << log, faults >>
    /\ UNCHANGED << si, exit, config >>
    /\ ConfigFrame

\* apply_packages: packages::install_packages(..).await?
InstallPackages ==
    /\ pcP = "package_install"
    /\ IF config.packages
       THEN \/ /\ log' = Append(log, Ev("body_ok", "package_install", 1, ""))
               /\ pcP' = Following("package_install")
               /\ UNCHANGED << si, exit, faults >>
            \/ /\ CanFail
               /\ faults' = faults + 1
               /\ StageErr(Append(log, Ev("body_err", "package_install", 1, "Module")),
                           "Module")
       ELSE /\ pcP' = Following("package_install")
            /\ UNCHANGED << log, si, exit, faults >>
    /\ UNCHANGED config
    /\ ConfigFrame

\* stages::config::run returns Ok(())
ConfigStageDone ==
    /\ pcP = "config_done"
    /\ StageOk
    /\ UNCHANGED << config, faults >>
    /\ ConfigFrame

(* ---------------------------- specification ---------------------------- *)

Next ==
    \/ Initialize
    \/ \E id \in InstanceIds : SetInstanceId(id)
    \/ CheckInstanceChange
    \/ CreateInstanceDir
    \/ CreateSemDir
    \/ RemoveInstanceLink
    \/ CreateInstanceLink
    \/ WriteCachedInstanceId
    \/ FinishSetInstanceId
    \/ LoadCachedInstanceId
    \/ Clean
    \/ New
    \/ \E m \in Modules, f \in Frequencies : MarkDone(m, f)
    \/ \E m \in Modules, f \in Frequencies : Clear(m, f)
    \/ ClearAll

Spec == Init /\ [][Next]_vars

\* the state store with its save, status and boot-finished operations,
\* without the semaphore manager; the id handed in may be empty
NextStatus ==
    \/ Initialize
    \/ \E id \in { <<"a">>, <<>> } : SetInstanceId(id)
    \/ CheckInstanceChange
    \/ CreateInstanceDir
    \/ CreateSemDir
    \/ RemoveInstanceLink
    \/ CreateInstanceLink
    \/ WriteCachedInstanceId
    \/ FinishSetInstanceId
    \/ LoadCachedInstanceId
    \/ MarkBootFinished
    \/ Save("save_userdata", ScriptFile)
    \/ Save("save_cloud_config", ConfigFile(FullConfig))
    \/ \E st \in Statuses : UpdateStatus(st)
    \/ Clean
    \/ New

SpecStatus == Init /\ [][NextStatus]_vars

NextPipeline ==
    \/ \E cmd \in { "init", "local", "network", "config", "final" } : StartRun(cmd)
    \/ RunStage
    \/ RunStagesOk
    \/ LocalStage
    \/ NetworkStage
    \/ FinalStage
    \/ LoadCloudConfig
    \/ WarnAndContinue("hostname", config.hostname)
    \/ WarnAndContinue("timezone", config.timezone)
    \/ WarnAndContinue("locale", config.locale)
    \/ CreateEntities("groups", config.groups)
    \/ CreateEntities("users", config.users)
    \/ ApplyWriteFiles(FALSE)
    \/ WarnAndContinue("package_update", config.package_update)
    \/ WarnAndContinue("package_upgrade", config.package_upgrade)
    \/ InstallPackages
    \/ ApplyWriteFiles(TRUE)
    \/ ConfigStageDone

SpecPipeline == InitPipeline /\ [][NextPipeline]_vars

(* ============================ merging ================================== *)

\* merge_all_configs over the whole list
MergeAllConfigs ==
    /\ merged = NoDoc
    /\ merged' = merge_all_configs(configs)
    /\ UNCHANGED << configs, pending, dropins, system_config >>
    /\ UNCHANGED << storeVars, instFiles, pipeVars, dsVars, netVars,
                    udVars >>

\* merge_configs of two neighbouring documents of the list
MergeConfigs(i) ==
    /\ i + 1 \in DOMAIN pending
    /\ pending' = SubSeq(pending, 1, i - 1)
                  \o << merge_configs(pending[i], pending[i + 1]) >>
                  \o SubSeq(pending, i + 2, Len(pending))
    /\ UNCHANGED << configs, merged, dropins, system_config >>
    /\ UNCHANGED << storeVars, instFiles, pipeVars, dsVars, netVars,
                    udVars >>

\* load_merged_config: cloud.cfg, when there is one, then the drop-ins
LoadMergedConfig ==
    /\ configs = <<>>
    /\ system_config.merged = NoDoc
    /\ \E main \in { <<>>, << CloudConfig(Some("main"), <<>>, NoSsh) >> } :
         LET cs == main \o load_dropin_configs(dropins)
         IN  system_config' = [configs |-> cs, merged |-> merge_all_configs(cs)]
    /\ UNCHANGED << configs, pending, merged, dropins >>
    /\ UNCHANGED << storeVars, instFiles, pipeVars, dsVars, netVars,
                    udVars >>

InitMerge ==
    /\ StoreInit
    /\ \/ /\ \E n \in 0 .. MaxDocs : configs \in [1 .. n -> Documents]
          /\ dropins = {}
       \/ /\ configs = <<>>
          /\ dropins \in { d \in SUBSET DropinFiles :
                              \A e, f \in d : e.name = f.name => e = f }
    /\ system_config = [configs |-> <<>>, merged |-> NoDoc]
    /\ pending = configs
    /\ merged = NoDoc
    /\ DatasourceIdle
    /\ NetworkIdle
    /\ UserdataIdle

NextMerge ==
    \/ LoadMergedConfig
    \/ MergeAllConfigs
    \/ \E i \in 1 .. MaxDocs : MergeConfigs(i)

SpecMerge == InitMerge /\ [][NextMerge]_vars

(* ============================ datasources ============================== *)

DetectDatasource ==
    /\ detected = "none"
    /\ LET r == detect_datasource(available)
       IN  /\ probed' = r.probed
           /\ detected' = r.result
    /\ UNCHANGED << available, imds, requests, response >>
    /\ UNCHANGED << storeVars, instFiles, pipeVars, mergeVars, netVars,
                    udVars >>

FetchMetadataPath(path) ==
    /\ response = NoResponse
    /\ LET r == fetch_metadata_path(imds, path)
       IN  /\ requests' = r.requests
           /\ response' = r.response
    /\ UNCHANGED << available, probed, detected, imds >>
    /\ UNCHANGED << storeVars, instFiles, pipeVars, mergeVars, netVars,
                    udVars >>

GetUserdata ==
    /\ response = NoResponse
    /\ LET r == get_userdata(imds)
       IN  /\ requests' = r.requests
           /\ response' = r.response
    /\ UNCHANGED << available, probed, detected, imds >>
    /\ UNCHANGED << storeVars, instFiles, pipeVars, mergeVars, netVars,
                    udVars >>

InitDatasource ==
    /\ StoreInit
    /\ available \in [Drivers -> BOOLEAN]
    /\ probed = <<>>
    /\ detected = "none"
    /\ imds \in Services
    /\ requests = <<>>
    /\ response = NoResponse
    /\ MergeIdle
    /\ NetworkIdle
    /\ UserdataIdle

NextDatasource ==
    \/ DetectDatasource
    \/ \E path \in MetadataPaths : FetchMetadataPath(path)
    \/ GetUserdata

SpecDatasource == InitDatasource /\ [][NextDatasource]_vars

(* ============================ network ================================== *)

ToV2 ==
    /\ v2 = NoV2
    /\ v2' = to_v2(v1)
    /\ UNCHANGED << v1, names, prefix, build, netmask, back, hint, renderer, paths,
                    used >>
    /\ UNCHANGED << storeVars, instFiles, pipeVars, mergeVars, dsVars,
                    udVars >>

InterfaceNames ==
    /\ v2 # NoV2
    /\ names = None
    /\ names' \in interface_names(v2)
    /\ UNCHANGED << v1, v2, prefix, build, netmask, back, hint, renderer, paths,
                    used >>
    /\ UNCHANGED << storeVars, instFiles, pipeVars, mergeVars, dsVars,
                    udVars >>

PrefixToNetmask ==
    /\ netmask = None
    /\ netmask' = prefix_to_netmask(prefix, build = "debug")
    /\ UNCHANGED << v1, v2, names, prefix, build, back, hint, renderer, paths,
                    used >>
    /\ UNCHANGED << storeVars, instFiles, pipeVars, mergeVars, dsVars,
                    udVars >>

NetmaskToPrefix ==
    /\ netmask \notin {None, Panic}
    /\ ~back.some
    /\ back' = Some(netmask_to_prefix(netmask))
    /\ UNCHANGED << v1, v2, names, prefix, build, netmask, hint, renderer, paths,
                    used >>
    /\ UNCHANGED << storeVars, instFiles, pipeVars, mergeVars, dsVars,
                    udVars >>

ApplyNetworkConfig ==
    /\ used = "<idle>"
    /\ used' = apply_network_config(hint, renderer, paths)
    /\ UNCHANGED << v1, v2, names, prefix, build, netmask, back, hint,
                    renderer, paths >>
    /\ UNCHANGED << storeVars, instFiles, pipeVars, mergeVars, dsVars,
                    udVars >>

InitNetwork ==
    /\ StoreInit
    /\ \/ /\ \E n \in 0 .. MaxItems : v1 \in [1 .. n -> ConfigItems]
          /\ prefix \in 0 .. 32
          /\ build \in {"debug", "release"}
          /\ hint = "<none>" /\ renderer = "<none>" /\ paths = {}
       \/ /\ \E n \in 1 .. MaxItems : v1 \in [1 .. n -> DnsItems]
          /\ prefix = 0
          /\ build = "release"
          /\ hint = "<none>" /\ renderer = "<none>" /\ paths = {}
       \/ /\ v1 = <<>>
          /\ prefix = 0
          /\ build = "release"
          /\ hint \in { "<none>", "networkd", "NetworkManager", "nm", "ENI", "netplan" }
          /\ renderer \in { "<none>", "networkd", "NetworkManager", "ENI", "netplan" }
          /\ paths \in SUBSET { "/run/systemd/system", "/lib/systemd/systemd-networkd",
                                "/usr/sbin/NetworkManager", "/usr/bin/nmcli",
                                "/etc/network/interfaces" }
    /\ used = "<idle>"
    /\ v2 = NoV2
    /\ names = None
    /\ netmask = None
    /\ back = [some |-> FALSE, v |-> 0]
    /\ MergeIdle
    /\ DatasourceIdle
    /\ UserdataIdle

NextNetwork ==
    \/ ApplyNetworkConfig
    \/ ToV2
    \/ InterfaceNames
    \/ PrefixToNetmask
    \/ NetmaskToPrefix

SpecNetwork == InitNetwork /\ [][NextNetwork]_vars

(* ============================ user-data ================================ *)

ParseUserdata ==
    /\ userdata.kind = "<none>"
    /\ userdata' = parse_userdata(raw)
    /\ UNCHANGED << raw, commands, executed >>
    /\ UNCHANGED << storeVars, instFiles, pipeVars, mergeVars, dsVars, netVars >>

\* execute_runcmd, and execute_bootcmd with its early return
ExecuteCommands(module) ==
    /\ executed.ret = "<none>"
    /\ executed' = IF module = "bootcmd" /\ commands = <<>>
                   THEN [ret |-> "Ok", ran |-> <<>>]
                   ELSE execute_runcmd(commands, 1, <<>>)
    /\ UNCHANGED << raw, userdata, commands >>
    /\ UNCHANGED << storeVars, instFiles, pipeVars, mergeVars, dsVars, netVars >>

InitUserdata ==
    /\ StoreInit
    /\ \E n \in 0 .. MaxLayers, c \in { "#cloud-config", "#!", "binary" } :
         \E layers \in [1 .. n -> { "gzip", "base64" }] : raw = layers \o << c >>
    /\ userdata = [kind |-> "<none>", data |-> <<>>]
    /\ \E n \in 0 .. MaxCommands :
         commands \in [1 .. n -> { "success", "nonzero", "spawn_error", "empty" }]
    /\ executed = [ret |-> "<none>", ran |-> <<>>]
    /\ MergeIdle
    /\ DatasourceIdle
    /\ NetworkIdle

NextUserdata ==
    \/ ParseUserdata
    \/ \E m \in { "runcmd", "bootcmd" } : ExecuteCommands(m)

SpecUserdata == InitUserdata /\ [][NextUserdata]_vars

(* ============================ claims: state store ====================== *)

\* set_instance_id has run check_instance_change and not yet written the cache
AfterCheck == pc \in {"mkdir_instance", "mkdir_sem", "unlink", "symlink", "write_cache"}

Returned(v) == ret = Ret("set_instance_id", "", "", v)

\* C1: a set_instance_id call returns true exactly when its id differs from
\* the id the preceding call cached, or when no id is cached yet.
C1_TrueIffIdDiffers ==
    AfterCheck => (is_new <=> (cachedFile = NoFile \/ cachedFile # arg))

\* C2 as stated: should_run(M, per-instance) is false right after mark_done
\* for the same instance and true right after every new-instance transition,
\* whatever ids came before.  A transition is taken here from a cached id
\* to an id that differs from it also after trimming, so that the comparison
\* of C1 is not what decides.
C2_TrueAfterEveryTransition ==
    /\ \A m \in Modules :
          ret = Ret("mark_done", m, "PerInstance", "ok")
             => ~should_run(semaphores, m, "PerInstance")
    /\ (Returned("true") /\ previousFile # NoFile /\ previousFile # Trim(arg))
          => \A m \in Modules : should_run(semaphores, m, "PerInstance")

\* C2 amended: should_run(M, per-instance) is false right after mark_done for
\* the same instance; right after a new-instance transition it is true
\* exactly when the sem directory of the new id holds no marker for M.
C2_TrueUnlessMarkerOfNewId ==
    /\ \A m \in Modules :
          ret = Ret("mark_done", m, "PerInstance", "ok")
             => ~should_run(semaphores, m, "PerInstance")
    /\ Returned("true")
          => \A m \in Modules :
                should_run(semaphores, m, "PerInstance")
                   <=> [dir |-> sem_dir(arg), name |-> m] \notin semFiles

\* a new-instance transition back to an id whose marker is still on disk
C2_Witness ==
    /\ Returned("true")
    /\ previousFile # NoFile
    /\ \E m \in Modules : ~should_run(semaphores, m, "PerInstance")

PerOnceDone(m) == ~should_run(semaphores, m, "PerOnce")

\* C3: once the per-once marker of M is written, no step of any later
\* set_instance_id call makes should_run(M, per-once) true again.
C3_PerOnceSurvives ==
    [][\A m \in Modules :
          (PerOnceDone(m) /\ (pc # "idle" \/ pc' # "idle")) => PerOnceDone(m)']_vars

\* a per-once marker written under one instance, seen after a switch to another
C3_Witness ==
    /\ Returned("true")
    /\ previousFile # NoFile
    /\ \E m \in Modules :
          PerOnceDone(m) /\ should_run(semaphores, m, "PerInstance")

\* C4: after a set_instance_id call that returned Ok, the cached instance-id
\* file holds the id of the directory the instance symlink points to.
C4_CacheMatchesLink ==
    (Returned("true") \/ Returned("false"))
       => (cachedFile # NoFile /\ link = instance_dir(cachedFile))

\* a successful switch from one instance to another
C4_Witness ==
    /\ Returned("true")
    /\ previousFile # NoFile
    /\ link = instance_dir(arg)

\* C5: a set_instance_id call with the cached id, which returns false,
\* changes nothing on disk at any of its steps.
C5_SameIdMutatesNothing ==
    [][(pc # "idle" /\ cachedFile = arg /\ ~is_new') => disk' = disk]_vars

\* C6: while set_instance_id runs, an existing instance link is never seen
\* missing: it points to the old or to the new instance directory.
C6_LinkReplacedAtomically ==
    [][(pc # "idle" /\ link # NoLink) => link' \in {link, instance_dir(arg)}]_vars

(* ============================ claims: stages =========================== *)

IsBody(e) == e.ev \in {"body_ok", "body_err"}

\* the stage-level entries of the current run
StageEvents ==
    SelectSeq(log, LAMBDA e : e.run = run /\ e.ev \in {"start", "done", "error"})

\* C7: run_stages starts the stages in list order, each only after the one
\* before it returned Ok; the first error ends the run, no later stage is
\* started and run_stages returns that error.
C7_StagesInListOrder ==
    LET se == StageEvents
        n == Len(se)
    IN /\ \A k \in 1 .. n :
            IF k % 2 = 1
            THEN se[k].ev = "start" /\ se[k].stage = stages[(k + 1) \div 2]
            ELSE se[k].ev \in {"done", "error"} /\ se[k].stage = se[k - 1].stage
       /\ \A k \in 1 .. n : se[k].ev = "error" => k = n
       /\ (n > 0 /\ se[n].ev = "error") => (pcP = "idle" /\ exit = se[n].err)
       /\ exit = "ok" =>
            (n = 2 * Len(stages) /\ \A k \in 1 .. n : se[k].ev # "error")

\* an init run whose Config stage failed after Local and Network succeeded
C7_Witness ==
    /\ pcP = "idle"
    /\ Len(stages) = 4
    /\ si = 3
    /\ exit \in {"InvalidData", "Io", "Module"}
    /\ Len(StageEvents) = 6

C9_OncePerInstance ==
    \A i, j \in DOMAIN log :
       (/\ log[i].ev = "body_ok"
        /\ log[j].run > log[i].run
        /\ log[j].module = log[i].module)
          => ~IsBody(log[j])

\* the order in which the Config stage is to run its modules
ListedOrder ==
    << "hostname", "timezone", "locale", "groups", "users", "write_files",
       "package_update", "package_upgrade", "package_install", "write_deferred" >>

Rank(m) == CHOOSE k \in 1 .. Len(ListedOrder) : ListedOrder[k] = m

\* C10: within one Config stage run the module bodies execute in the listed
\* order: hostname, timezone, locale, groups, users, non-deferred
\* write_files, package update, upgrade, install, deferred write_files.
C10_ModulesInListedOrder ==
    \A i, j \in DOMAIN log :
       (i < j /\ IsBody(log[i]) /\ IsBody(log[j]) /\ log[i].run = log[j].run)
          => /\ Rank(log[i].module) <= Rank(log[j].module)
             /\ log[i].module = log[j].module => log[i].idx < log[j].idx

\* one Config stage run that executed every module of the list
C10_Witness ==
    /\ run > 0
    /\ \A k \in 1 .. Len(ListedOrder) :
          \E i \in DOMAIN log :
             log[i].run = run /\ IsBody(log[i]) /\ log[i].module = ListedOrder[k]

\* C11: after a run in which the Final stage returned Ok, the boot-finished
\* marker of the current instance exists and the persisted status reads done.
C11_BootFinishedAndDone ==
    \A k \in DOMAIN log :
       (log[k].ev = "done" /\ log[k].stage = "final")
          => /\ cachedFile # NoFile => Trim(cachedFile) \in bootFinished
             /\ read_status.status = "done"

\* C12: when a stage has failed and run_stages has returned its error, the
\* persisted status holds that error in its error field.
C12_ErrorInStatus ==
    (pcP = "idle" /\ exit \in {"InvalidData", "Io", "Module"})
       => read_status.error = exit

(* ============================ claims: merging ========================== *)

\* the items of q without the later repeats
FirstOccurrences(q) ==
    LET keep == { i \in DOMAIN q : \A j \in 1 .. (i - 1) : q[j] # q[i] }
    IN  [k \in 1 .. Cardinality(keep) |->
            q[CHOOSE i \in keep : Cardinality({ j \in keep : j < i }) = k - 1]]

RECURSIVE Concat(_)
Concat(lists) ==
    IF lists = <<>> THEN <<>> ELSE Head(lists) \o Concat(Tail(lists))

\* the first list as it stands, then the items of the later lists that are
\* not in it, each once
FirstThenNew(lists) ==
    IF lists = <<>> THEN <<>>
    ELSE lists[1]
         \o SubSeq(FirstOccurrences(Concat(lists)),
                   Len(FirstOccurrences(lists[1])) + 1,
                   Len(FirstOccurrences(Concat(lists))))

\* the value of the last option that is set, none when none is
LastSet(opts, none) ==
    IF \E i \in DOMAIN opts : opts[i].some
    THEN opts[CHOOSE i \in DOMAIN opts :
                 opts[i].some /\ \A j \in DOMAIN opts : j > i => ~opts[j].some]
    ELSE none

\* the documents of cs that have an ssh section, in order
WithSsh(cs) == SelectSeq(cs, LAMBDA c : c.ssh.some)

Hostnames_(cs) == [i \in DOMAIN cs |-> cs[i].hostname]
Packages_(cs) == [i \in DOMAIN cs |-> cs[i].packages]
Emits_(cs) == [i \in DOMAIN WithSsh(cs) |-> WithSsh(cs)[i].ssh.v.emit_keys_to_console]
Keys_(cs) == [i \in DOMAIN WithSsh(cs) |-> WithSsh(cs)[i].ssh.v.ssh_authorized_keys]

\* merge_configs has merged the two documents handed in
MergedTwo == Len(configs) = 2 /\ Len(pending) = 1

\* C13 as stated: merging a document with the empty document, on either
\* side, gives the document back.
C13_EmptyIsIdentity ==
    MergedTwo =>
       /\ configs[2] = CloudConfigDefault => pending[1] = configs[1]
       /\ configs[1] = CloudConfigDefault => pending[1] = configs[2]

\* C13: merge_configs(D, empty) is D; merge_configs(empty, D) is D with the
\* later repeats of each top-level list dropped, so it is D when no top-level
\* list of D repeats an item.
C13_EmptyIsIdentityUpToRepeats ==
    MergedTwo =>
       /\ configs[2] = CloudConfigDefault => pending[1] = configs[1]
       /\ configs[1] = CloudConfigDefault =>
             pending[1] = [configs[2] EXCEPT
                              !.packages = FirstOccurrences(configs[2].packages)]

C13_Witness ==
    /\ MergedTwo
    /\ configs[1] = CloudConfigDefault
    /\ configs[2].packages = << "a", "a" >>
    /\ pending[1].packages = << "a" >>

\* no item occurs twice in the lists of one field
UniqueAcross(cs) ==
    /\ FirstOccurrences(Concat(Packages_(cs))) = Concat(Packages_(cs))
    /\ FirstOccurrences(Concat(Keys_(cs))) = Concat(Keys_(cs))

\* C14: for three documents whose list items are unique across the lists,
\* merging the first two and then the third gives the same document as
\* merging the first with the merge of the last two.
C14_AppendAssociative ==
    (Len(configs) = 3 /\ UniqueAcross(configs) /\ Len(pending) = 1) =>
       /\ pending[1] = merge_configs(merge_configs(configs[1], configs[2]),
                                     configs[3])
       /\ pending[1] = merge_configs(configs[1],
                                     merge_configs(configs[2], configs[3]))

C14_Witness ==
    /\ Len(configs) = 3
    /\ UniqueAcross(configs)
    /\ configs[2].packages = << "a", "b" >>
    /\ configs[3].packages = << "c" >>
    /\ Len(pending) = 1
    /\ pending[1].packages = << "a", "b", "c" >>

\* C15 as stated: the merged document has, for every scalar, the value of
\* the last document that sets it and, for every list, the items of all
\* documents in order without the later repeats.
C15_LastScalarAllItemsOnce ==
    merged # NoDoc =>
       /\ merged.hostname = LastSet(Hostnames_(configs), NoString)
       /\ merged.packages = FirstOccurrences(Concat(Packages_(configs)))

\* C15: the merged document has, for every scalar, the value of the last
\* document that sets it and, for every list, the list of the first document
\* that has it as it stands, followed by the items of the later documents
\* that are not yet present, each once.
C15_LastScalarFirstListThenNew ==
    merged # NoDoc =>
       /\ merged.hostname = LastSet(Hostnames_(configs), NoString)
       /\ merged.packages = FirstThenNew(Packages_(configs))
       /\ merged.ssh.some <=> WithSsh(configs) # <<>>
       /\ merged.ssh.some =>
             /\ merged.ssh.v.emit_keys_to_console = LastSet(Emits_(configs), NoBool)
             /\ merged.ssh.v.ssh_authorized_keys = FirstThenNew(Keys_(configs))

C15_Witness ==
    /\ configs = << CloudConfig(Some("base"), << "a", "b" >>, NoSsh),
                    CloudConfig(Some("mid"), << "b", "c" >>, NoSsh),
                    CloudConfig(Some("user"), <<>>, NoSsh) >>
    /\ merged.hostname = Some("user")
    /\ merged.packages = << "a", "b", "c" >>

(* ============================ claims: drop-ins ========================= *)

\* the names cloud.cfg.d/ can hold, in lexicographic order
SortedNames ==
    << << ".", "c", "f", "g" >>,
       << "1", ".", "c", "f", "g" >>,
       << "1", "0", ".", "c", "f", "g" >>,
       << "9", ".", "c", "f", "g" >>,
       << "a", ".", "t", "x", "t" >> >>

EndsInCfg(name) ==
    Len(name) >= 4 /\ SubSeq(name, Len(name) - 3, Len(name)) = << ".", "c", "f", "g" >>

\* the documents of the entries in part, in the order of their names
InNameOrder(part) ==
    LET of(n) == CHOOSE e \in part : e.name = n
        ns == SelectSeq(SortedNames, LAMBDA n : \E e \in part : e.name = n)
    IN  [i \in DOMAIN ns |-> CloudConfig(Some(of(ns[i]).content), <<>>, NoSsh)]

\* the drop-in documents load_merged_config merged
LoadedDropins ==
    SelectSeq(system_config.configs, LAMBDA c : c.hostname # Some("main"))

\* C28 as stated: the drop-in documents that take part in the merge are
\* exactly the files of cloud.cfg.d/ whose name ends in .cfg, in
\* lexicographic filename order, so that a later-sorting drop-in overrides
\* an earlier one.
C28_EveryNameEndingInCfg ==
    system_config.merged # NoDoc =>
       LET part == InNameOrder({ e \in dropins : EndsInCfg(e.name) })
       IN  /\ LoadedDropins = part
           /\ part # <<>> => system_config.merged.hostname = part[Len(part)].hostname

\* C28: the drop-in documents that take part in the merge are exactly the
\* files of cloud.cfg.d/ that have the extension cfg (the name ends in .cfg
\* and is longer than that) and parse, in lexicographic filename order, so
\* that a later-sorting drop-in overrides an earlier one.
C28_EveryParsedCfgExtension ==
    system_config.merged # NoDoc =>
       LET part == InNameOrder({ e \in dropins :
                                   /\ EndsInCfg(e.name)
                                   /\ Len(e.name) > 4
                                   /\ e.content # "<invalid>" })
       IN  /\ LoadedDropins = part
           /\ part # <<>> => system_config.merged.hostname = part[Len(part)].hostname

\* 9.cfg and 10.cfg were loaded next to .cfg and a.txt: 10.cfg came first
\* and 9.cfg won
C28_Witness ==
    /\ { e.content : e \in dropins } = { "nine", "ten", "hidden", "text" }
    /\ Len(LoadedDropins) = 2
    /\ system_config.merged.hostname = Some("nine")

(* ============================ claims: datasources ====================== *)

\* C16: detect_datasource returns a driver that reports available, no driver
\* probed before it does, and it fails with NoDatasource exactly when none of
\* NoCloud, EC2, Azure, GCE and OpenStack reports available.
C16_NoDatasourceIffNoneAvailable ==
    detected # "none" =>
       /\ detected = "NoDatasource" <=> \A d \in Drivers : ~available[d]
       /\ detected # "NoDatasource" =>
             /\ available[detected]
             /\ probed[Len(probed)] = detected
             /\ \A i \in 1 .. (Len(probed) - 1) : ~available[probed[i]]

Fetched == response # NoResponse

\* C17 as stated: a fetch first asks for a token; with a token every GET
\* carries it, without one the GET goes out bare and its response is the
\* result.
C17_TokenOnEveryGet ==
    Fetched =>
       /\ requests[1] = Request("PUT", "latest/api/token", FALSE)
       /\ Len(requests) >= 2
       /\ \A i \in 2 .. Len(requests) :
             /\ requests[i].method = "GET"
             /\ requests[i].token = get_imdsv2_token(imds)
       /\ ~get_imdsv2_token(imds) => response.from = "plain"

\* C17: a fetch first asks for a token; the GET that follows carries the
\* token when one was obtained and goes out bare when none was, and then its
\* response is the result; a metadata fetch whose GET with the token is
\* answered with a status that is no success sends one more GET, bare, and
\* takes that response.
C17_TokenOnFirstGet ==
    Fetched =>
       /\ requests[1] = Request("PUT", "latest/api/token", FALSE)
       /\ Len(requests) \in {2, 3}
       /\ requests[2].method = "GET"
       /\ requests[2].token = get_imdsv2_token(imds)
       /\ ~get_imdsv2_token(imds) => Len(requests) = 2 /\ response.from = "plain"
       /\ Len(requests) = 2 /\ get_imdsv2_token(imds) => response.from = "with_token"
       /\ Len(requests) = 3 =>
             /\ requests[2].url \in MetadataPaths
             /\ imds.with_token \notin {"error", "200"}
             /\ requests[3] = Request("GET", requests[2].url, FALSE)
             /\ response.from = "plain"

C17_Witness ==
    /\ Fetched
    /\ imds.token = "403"
    /\ requests = << Request("PUT", "latest/api/token", FALSE), Request("GET", "latest/user-data", FALSE) >>
    /\ response = Result(TRUE, "text", "plain")

(* ============================ claims: network ========================== *)

\* how often name occurs in q
Count(q, name) == Cardinality({ i \in DOMAIN q : q[i] = name })

\* the types of the interface items of v1 called name
TypesOf(name) ==
    { t \in InterfaceTypes :
        \E i \in DOMAIN v1 : v1[i].type = t /\ v1[i].name = name }

AllNames == { v1[i].name : i \in DOMAIN v1 } \cup { names[i] : i \in DOMAIN names }

\* C18 as stated: the converted document has version 2 and interface_names
\* holds the name of every physical, bond, bridge and vlan item of the v1
\* document once, and no other name.
C18_EveryNameOnce ==
    names # None =>
       /\ v2.version = 2
       /\ \A n \in AllNames :
             Count(names, n) = IF TypesOf(n) # {} THEN 1 ELSE 0

\* C18: the converted document has version 2 and interface_names holds the
\* names of the physical, bond, bridge and vlan items of the v1 document and
\* no other name; a name occurs once for each of the four types that has an
\* item of that name.
C18_EveryNameOncePerType ==
    names # None =>
       /\ v2.version = 2
       /\ \A n \in AllNames : Count(names, n) = Cardinality(TypesOf(n))

C18_Witness ==
    /\ v1 = << ConfigItem("physical", "eth0"), ConfigItem("bond", "eth0") >>
    /\ names = << "eth0", "eth0" >>

\* C19: the prefix that netmask_to_prefix reads from the netmask that
\* prefix_to_netmask wrote for a prefix from 0 to 32 is that prefix.
C19_PrefixRoundTrip == back.some => back.v = prefix

\* the nameservers a converted interface item has of its own
OwnNameservers(i) == [addresses |-> v1[i].address, search |-> v1[i].search]

\* C27: in the v1 to v2 conversion the global nameserver items are applied
\* to every converted interface of any type that has no nameservers of its
\* own, and an interface that has its own nameservers keeps them unchanged.
C27_GlobalNameserversEverywhere ==
    v2 # NoV2 =>
       \A i \in DOMAIN v1 :
          (/\ v1[i].type \in InterfaceTypes
           /\ \A j \in DOMAIN v1 :
                 (v1[j].type = v1[i].type /\ v1[j].name = v1[i].name) => j = i)
             => v2.nameservers[v1[i].type][v1[i].name] =
                   IF OwnNameservers(i) = [addresses |-> <<>>, search |-> <<>>]
                   THEN global_ns(v1, 1)
                   ELSE OwnNameservers(i)

\* the renderer a hint names, or the error when it names none
Named(h) ==
    CASE h = "networkd" -> "Networkd"
      [] h \in { "NetworkManager", "nm" } -> "NetworkManager"
      [] h = "ENI" -> "Eni"
      [] OTHER -> "Module"

NetworkManagerExists ==
    "/usr/sbin/NetworkManager" \in paths \/ "/usr/bin/nmcli" \in paths

\* the renderer taken when networkd is detected under the condition networkd
Selected(networkd) ==
    IF hint # "<none>" THEN Named(hint)
    ELSE IF renderer # "<none>" THEN Named(renderer)
         ELSE IF networkd THEN "Networkd"
              ELSE IF NetworkManagerExists THEN "NetworkManager"
                   ELSE IF "/etc/network/interfaces" \in paths THEN "Eni"
                        ELSE "Module"

\* C26 as stated: the renderer used is the one the explicit hint names;
\* otherwise the one the document's renderer field names; otherwise the
\* first match of networkd (if /lib/systemd/systemd-networkd exists),
\* NetworkManager (if NetworkManager or nmcli exists), ENI (if
\* /etc/network/interfaces exists).
C26_NetworkdByBinary ==
    used # "<idle>" => used = Selected("/lib/systemd/systemd-networkd" \in paths)

\* C26: the renderer used is the one the explicit hint names; otherwise the
\* one the document's renderer field names; otherwise the first match of
\* networkd (if /run/systemd/system and /lib/systemd/systemd-networkd both
\* exist), NetworkManager (if NetworkManager or nmcli exists), ENI (if
\* /etc/network/interfaces exists); a name that is no renderer's and a
\* detection without a match are an error.
C26_NetworkdByBinaryAndSystemd ==
    used # "<idle>" =>
       used = Selected(/\ "/run/systemd/system" \in paths
                       /\ "/lib/systemd/systemd-networkd" \in paths)

\* detection on a system with the networkd binary and nmcli where systemd
\* is not running
C26_Witness ==
    /\ hint = "<none>"
    /\ renderer = "<none>"
    /\ paths = { "/lib/systemd/systemd-networkd", "/usr/bin/nmcli" }
    /\ used = "NetworkManager"

(* ============================ claims: previous id ====================== *)

\* C20: when a set_instance_id call that found an id cached goes on to
\* return true, previous-instance-id holds the content the cache had before
\* the call.
C20_PreviousIsCachedId ==
    [][(pc = "write_cache" /\ pc' = "finish" /\ is_new /\ cachedFile # NoFile)
          => previousFile = cachedFile]_vars

(* ============================ claims: config stage ===================== *)

\* C21: a failure while creating one user or group never prevents the
\* remaining users and groups of the list from being attempted, and never
\* fails the Config stage.
C21_EveryEntityAttempted ==
    /\ \A k \in DOMAIN log :
          (/\ log[k].ev = "body_err"
           /\ log[k].module \in {"groups", "users"}
           /\ log[k].run = run
           /\ log[k].idx < config[log[k].module])
             => \E j \in DOMAIN log :
                   /\ j > k
                   /\ log[j].run = run
                   /\ IsBody(log[j])
                   /\ log[j].module = log[k].module
                   /\ log[j].idx = log[k].idx + 1
    /\ \A k \in DOMAIN log : log[k].ev = "error" => log[k].err # "UserGroup"

\* C22: a Config stage that cannot load cloud-config (none stored, or the
\* stored document cannot be read or parsed) goes on with the default
\* configuration and runs its modules instead of failing the stage.
C22_LoadNeverFailsStage ==
    \A k \in DOMAIN log :
       (log[k].ev = "error" /\ log[k].stage = "config")
          => log[k].err \notin {"InvalidData", "Io"}

\* C24: a failed package install is fatal: the Config stage returns the
\* error, no deferred write_files entry is written afterwards, and the
\* pipeline stops.
C24_FailedInstallIsFatal ==
    \A k \in DOMAIN log :
       (log[k].ev = "body_err" /\ log[k].module = "package_install")
          => /\ k < Len(log)
             /\ log[k + 1].ev = "error"
             /\ log[k + 1].stage = "config"
             /\ log[k + 1].err = "Module"
             /\ log[k + 1].run = log[k].run
             /\ \A j \in DOMAIN log : j > k + 1 => log[j].run # log[k].run
             /\ log[k].run = run => (pcP = "idle" /\ exit = "Module")

\* the install failed in an init run whose configuration holds a deferred
\* write_files entry, with the Final stage still to come
C24_Witness ==
    /\ \E k \in DOMAIN log :
          /\ log[k].ev = "body_err"
          /\ log[k].module = "package_install"
          /\ log[k].run = run
    /\ \E i \in DOMAIN config.write_files : config.write_files[i]
    /\ si < Len(stages)

(* ============================ claims: commands and user-data =========== *)

\* C23: failure of an individual runcmd or bootcmd command is
\* warn-and-continue: every command of the list is attempted, in list order,
\* whatever the outcome of the commands before it, and the module returns
\* success.
C23_EveryCommandAttempted ==
    executed.ret # "<none>"
       => /\ executed.ret = "Ok"
          /\ executed.ran = [i \in 1 .. Len(commands) |-> i]

\* C25: user-data wrapped in any number of gzip and base64 layers decodes
\* to the same value as its innermost content.
C25_LayersDecodeToInnermost ==
    userdata.kind # "<none>" => userdata = parse_userdata(<< raw[Len(raw)] >>)

(* ============================ claims: empty id ========================= *)

\* C29: nothing is persisted for an empty instance id: set_instance_id with
\* an empty id creates no directory, symlink or cached-id file, and the save
\* operations write only while a non-empty instance id is set.
C29_NothingForEmptyId ==
    /\ sem_dir(<<>>) \notin dirs
    /\ link # instance_dir(<<>>)
    /\ cachedFile # <<>>
    /\ userDataFile[<<>>] = AbsentFile
    /\ cloudConfigFile[<<>>] = AbsentFile
    /\ <<>> \notin bootFinished

(* ============================ claims: cache and link =================== *)

\* C30: the cached instance-id and the `instance` symlink never name
\* different instances, even where set_instance_id has been interrupted or
\* has failed between two of its file-system steps.
C30_CacheAndLinkSameInstance ==
    (cachedFile # NoFile /\ link # NoLink) => link = instance_dir(cachedFile)

====
